---- MODULE Spec2Model ----
(***************************************************************************)
(* Verification model of the Tello drone agent.                            *)
(*                                                                         *)
(*   Part I  (Spec, FairSpec): src/src/main.py - TelloDroneAgent: the      *)
(*            main loop, the command executor task, the input thread, the  *)
(*            signal handler and the fail-safe cleanup().                  *)
(*   Part II (TelloSpec): src/src/drone/simple_tello.py - SimpleTello:     *)
(*            send_command callers, the receiver thread and close().       *)
(*   Part III (ControlSpec): src/src/agents/control_agent.py -             *)
(*            ControlAgent: process_command, _validate_command and         *)
(*            _get_error_command, applied to one reply of the language     *)
(*            model, and the executor's test of the result.                *)
(*                                                                         *)
(* asyncio coroutines are modelled one action per stretch of code between  *)
(* two awaits (the event loop runs such a stretch without interleaving     *)
(* another coroutine); the input thread and the signal handler interleave  *)
(* freely.  Threads of Part II are modelled one action per lock section    *)
(* or blocking call.                                                       *)
(***************************************************************************)
EXTENDS Integers, Sequences, FiniteSets, TLC

VARIABLES
    \* ---- Part I: TelloDroneAgent fields (main.py:36-55)
    vision_only,             \* self.vision_only
    running,                 \* self.running
    control_agent,           \* self.control_agent is not None
    tello_controller,        \* self.tello_controller is not None
    camera_manager,          \* self.camera_manager is not None
    command_queue,           \* self.command_queue (FIFO of instruction texts)
    vision_analysis_enabled, \* self.vision_analysis_enabled (VisionAssist)
    drone_is_flying,         \* self.drone_is_flying (FlightState)
    latest_analysis,         \* self.latest_analysis: NoAnalysis or the number of objects
    \* ---- Part I: control positions
    pcMain,                  \* main()/run(): where the main coroutine stands
    pcExec,                  \* execute_user_commands task: where it is suspended
    pcCleanup,               \* cleanup(): where it is suspended
    inputThread,             \* command_input thread: "none", "reading", "ended"
    cur,                     \* the executor's command_text / command locals
    scanStep,                \* _execute_360_scan: the loop variable step
    \* ---- Part I: history (observations, never read by the program)
    cleanupNo,               \* number of cleanup() invocations started so far
    log,                     \* what each cleanup() did, in order (see Ev)
    flyingAtStart,           \* drone_is_flying as read by each cleanup() at its start
    ackAtStart,              \* airborneAck at the start of each cleanup()
    airborneAck,             \* last acknowledged takeoff not followed by an acked land/stop
    lastTL,                  \* last takeoff-or-land action the executor handled
    signalled,               \* a SIGINT/SIGTERM has been delivered
    added,                   \* number of instructions typed so far
    lastTaken,               \* number of the instruction the executor dequeued last
    swept,                   \* degrees of rotation the sweep in progress has dispatched
    detected_objects,        \* _execute_360_scan: len(detected_objects)
    seen,                    \* objects in the snapshots the sweep in progress has read
    \* ---- Part II: SimpleTello fields (simple_tello.py:15-42)
    response,                \* self.response: NoResponse (None) or a datagram
    lock,                    \* holder of response_condition's lock: 0 (free), a caller, RecvId
    socket_closed,           \* self.socket.close() has been called
    is_connected,            \* self.is_connected
    \* ---- Part II: threads
    pcCaller,                \* per calling thread: where it stands in send_command
    callKind,                \* per calling thread: who called send_command
    cmdOf,                   \* per calling thread: the command of the current call
    attempt,                 \* per calling thread: the retry loop variable attempt
    elapsed,                 \* per calling thread: poll intervals since start_time
    wake,                    \* per calling thread: its condition wait may return
    pcRecv,                  \* _receive_thread: where it stands
    recvBuf,                 \* _receive_thread: the local variable response
    \* ---- Part II: the vehicle and the link
    pending,                 \* commands sent to the vehicle that it has not answered
    calls,                   \* history: number of send_command calls started
    abandoned,               \* history: commands whose send_command timed out
    storedAt,                \* history: calls started when the slot's datagram was stored
    taken,                   \* history: calls that have returned the slot's datagram
    exitedAt,                \* history: calls started when recvfrom first raised, or -1
    \* ---- Part III: one translation by ControlAgent (control_agent.py:73-114)
    pcControl,               \* where the translation stands
    reply,                   \* what the language model replied
    command_json,            \* what process_command returns
    handed                   \* the action the executor goes on to dispatch, or "none"

agentVars == <<vision_only, running, control_agent, tello_controller, camera_manager,
               command_queue, vision_analysis_enabled, drone_is_flying, latest_analysis,
               pcMain, pcExec, pcCleanup, inputThread, cur, scanStep,
               cleanupNo, log, flyingAtStart, ackAtStart, airborneAck, lastTL,
               signalled, added, lastTaken, swept, detected_objects, seen>>

telloVars == <<response, lock, socket_closed, is_connected, pcCaller, callKind, cmdOf,
               attempt, elapsed, wake, pcRecv, recvBuf, pending, calls, abandoned,
               storedAt, taken, exitedAt>>

slotHist == <<storedAt, taken>>

controlVars == <<pcControl, reply, command_json, handed>>

vars == <<agentVars, telloVars, controlVars>>

(***************************************************************************)
(* Bounds of the model.                                                    *)
(***************************************************************************)
MaxCommands == 2      \* instructions the user types in one run
MaxObjects == 1       \* objects one perception snapshot reports at most
NumCallers == 2       \* threads that call send_command
MaxCalls == 2         \* send_command calls in one run
TimeoutTicks == 1     \* the timeout of a call, in poll intervals of 0.1 s

(***************************************************************************)
(* Part I - data.                                                          *)
(***************************************************************************)

\* An instruction text, reduced to what the executor reads of it
\* (main.py:141-142, 160, 169, 176):
\*   kw       - contains one of analyze/detect/find/scan/rotate/capture/search/look
\*   analysis - contains one of analyze/capture/detect/look
\*   scan360  - contains both "360" and "analyze"
\*   cont     - contains "continuous" or "monitor"
Texts ==
    { t \in [kw : BOOLEAN, analysis : BOOLEAN, scan360 : BOOLEAN, cont : BOOLEAN] :
        /\ t.analysis => t.kw
        /\ t.scan360 => t.analysis }

\* DroneAction members the executor and cleanup() name (main.py:151, 154, 159,
\* 382, 392) and the other kinds of the action model.
DroneAction ==
    {"takeoff", "land", "move", "rotate_clockwise", "hover", "scan", "emergency_stop"}

NoCommand == [text |-> [kw |-> FALSE, analysis |-> FALSE, scan360 |-> FALSE, cont |-> FALSE],
              action |-> "none"]

\* self.latest_analysis = None (main.py:55)
NoAnalysis == -1

\* An entry of the history log: cleanup() number n dispatched a command or
\* released a resource (res = "-"), or an awaited command came back with res.
Ev(n, what, res) == [n |-> n, ev |-> what, res |-> res]

\* _execute_360_scan: total_steps (main.py:203)
total_steps == 8

\* _execute_360_scan: angles_per_step (main.py:202)
angles_per_step == 45

\* Mutant of MoreSteps: the loop runs one step too many.
MoreSteps_OneMore(step) == step + 1 <= total_steps

\* _execute_360_scan: for step in range(total_steps) (main.py:206): whether a
\* step follows step
MoreSteps(step) == step + 1 < total_steps

\* _execute_360_scan: the objects of the snapshot it reads (main.py:218-220);
\* no snapshot, or one without objects, adds nothing
ObjectsIn(analysis) == IF analysis = NoAnalysis THEN 0 ELSE analysis

\* _execute_360_scan: detected_objects after the objects of a step are stored
\* (main.py:223-229); the keys hold the angle of the step and the index of
\* the object, so every object adds an entry
DetectedAfter(count, analysis) == count + ObjectsIn(analysis)

\* Mutant of GetNowait: the newest instruction is taken first.
GetNowait_Newest(q) == [item |-> q[Len(q)], rest |-> SubSeq(q, 1, Len(q) - 1)]

\* queue.Queue.get_nowait (main.py:136): the oldest entry, and what remains
GetNowait(q) == [item |-> Head(q), rest |-> Tail(q)]

\* Mutant of AfterFailure: a failed action ends the executor loop.
AfterFailure_Stops(outcome) == IF outcome = "true" THEN "idle" ELSE "done"

\* execute_user_commands: where the loop goes when the dispatch is over: the
\* result of execute_command is not read (main.py:164) and an exception is
\* caught inside the loop (main.py:186-188)
AfterFailure(outcome) == "idle"


(***************************************************************************)
(* Part I - the pieces of cleanup() and of the executor that decide.       *)
(***************************************************************************)

\* Mutant of FailSafeNeeded: the negation of vision_only is lost.
FailSafeNeeded_NegationLost == drone_is_flying /\ tello_controller /\ vision_only

\* cleanup(): the guard of the fail-safe block (main.py:378)
FailSafeNeeded == drone_is_flying /\ tello_controller /\ ~vision_only

\* Mutant of Escalates: the branches of "if success" are swapped.
Escalates_Swapped(outcome) == outcome = "true"

\* cleanup(): "if success: ... else: <emergency stop>" (main.py:387-393);
\* reached only when wait_for returned a result
Escalates(outcome) == outcome = "false"

\* Mutant of CleanupCatches: the "except Exception" clause is missing.
CleanupCatches_TimeoutOnly(outcome) == outcome = "timeout"

\* cleanup(): the except clauses around the fail-safe block (main.py:395-398)
CleanupCatches(outcome) == outcome \in {"timeout", "raise"}

\* Mutant of FlagAfterFailSafe: the finally clause sets the flag.
FlagAfterFailSafe_Set == TRUE

\* Mutant of FlagAfterFailSafe: the finally clause does not clear the flag.
FlagAfterFailSafe_Kept == drone_is_flying

\* cleanup(): finally: self.drone_is_flying = False (main.py:399-400)
FlagAfterFailSafe == FALSE

\* Mutant of TrackFlightState: a takeoff while flying is taken for its end.
TrackFlightState_Toggle(action, flying) ==
    IF action = "takeoff" THEN ~flying
    ELSE IF action = "land" THEN FALSE
    ELSE flying

\* Mutant of TrackFlightState: the flag is left for the acknowledgement to set.
TrackFlightState_Unchanged(action, flying) == flying

\* Mutant of TrackFlightState: the "elif LAND" branch is missing.
TrackFlightState_NoLand(action, flying) ==
    IF action = "takeoff" THEN TRUE ELSE flying

\* execute_user_commands: "Track takeoff/landing state" (main.py:150-156)
TrackFlightState(action, flying) ==
    IF action = "takeoff" THEN TRUE
    ELSE IF action = "land" THEN FALSE
    ELSE flying

\* execute_user_commands: "Check if this is a 360-degree scan command"
\* (main.py:159-160)
IsScanCommand(action, text) == action = "rotate_clockwise" /\ text.scan360

\* execute_user_commands: "Disable vision analysis after command (unless it's
\* a continuous scan)" (main.py:176-178)
AfterCommand(text, vision) == IF ~text.cont THEN FALSE ELSE vision

\* Outcomes of the awaited calls.  TelloController.execute_command returns a
\* bool or raises; under asyncio.wait_for (main.py:383-386) it may also time
\* out.  ControlAgent.process_command, as the executor uses it, yields a
\* command object, a falsy value, or raises.
ExecuteOutcomes == {"true", "false", "raise"}
LandOutcomes == {"true", "false", "raise", "timeout"}
TranslateOutcomes == {"command", "none", "raise"}

\* What an acknowledged (True) command does to the vehicle.
AckEffect(action, outcome, airborne) ==
    IF outcome # "true" THEN airborne
    ELSE IF action = "takeoff" THEN TRUE
    ELSE IF action \in {"land", "emergency_stop"} THEN FALSE
    ELSE airborne

(***************************************************************************)
(* Part I - initial state: TelloDroneAgent.__init__ (main.py:36-55) and    *)
(* main() up to the installation of the signal handlers (main.py:443-447). *)
(***************************************************************************)
AgentInit ==
    /\ vision_only \in BOOLEAN
    /\ running = FALSE
    /\ control_agent = FALSE
    /\ tello_controller = FALSE
    /\ camera_manager = FALSE
    /\ command_queue = <<>>
    /\ vision_analysis_enabled = FALSE
    /\ drone_is_flying = FALSE
    /\ latest_analysis = NoAnalysis
    /\ pcMain = "initialize"
    /\ pcExec = "none"
    /\ pcCleanup = "none"
    /\ inputThread = "none"
    /\ cur = NoCommand
    /\ scanStep = 0
    /\ cleanupNo = 0
    /\ log = <<>>
    /\ flyingAtStart = <<>>
    /\ ackAtStart = <<>>
    /\ airborneAck = FALSE
    /\ lastTL = "none"
    /\ signalled = FALSE
    /\ added = 0
    /\ lastTaken = 0
    /\ swept = 0
    /\ detected_objects = 0
    /\ seen = 0

(***************************************************************************)
(* cleanup() from its first line to its first await (main.py:372-386):     *)
(* clears running, reads FlightState and, when the fail-safe is needed,    *)
(* dispatches land under wait_for.  Used by every action that enters       *)
(* cleanup(); the caller constrains pcMain.                                *)
(***************************************************************************)
CleanupBegin ==
    /\ running' = FALSE
    /\ cleanupNo' = cleanupNo + 1
    /\ flyingAtStart' = Append(flyingAtStart, drone_is_flying /\ tello_controller /\ ~vision_only)
    /\ ackAtStart' = Append(ackAtStart, airborneAck /\ tello_controller /\ ~vision_only)
    /\ IF FailSafeNeeded
       THEN /\ log' = Append(log, Ev(cleanupNo + 1, "land", "-"))
            /\ pcCleanup' = "land"
       ELSE /\ log' = log
            /\ pcCleanup' = "camera"

execVars == <<pcExec, cur, scanStep, command_queue, vision_analysis_enabled, lastTL>>
threadVars == <<inputThread, added, signalled>>
compVars == <<vision_only, control_agent, tello_controller, camera_manager>>
cleanupHist == <<cleanupNo, log, flyingAtStart, ackAtStart>>
execHist == <<lastTaken>>
scanVars == <<swept, detected_objects, seen>>

(***************************************************************************)
(* run(): await self.initialize() (main.py:320, 57-95).  A failure is      *)
(* re-raised (main.py:93-95, 366-368) and run()'s finally enters cleanup().*)
(***************************************************************************)
Initialize(outcome) ==
    /\ pcMain = "initialize"
    /\ outcome \in {"ok", "fail_camera", "fail_control", "fail_controller"}
    /\ (outcome \in {"fail_control", "fail_controller"}) => ~vision_only
    /\ camera_manager' = (outcome # "fail_camera")
    /\ control_agent' = (~vision_only /\ outcome \in {"ok", "fail_controller"})
    /\ tello_controller' = (~vision_only /\ outcome = "ok")
    /\ IF outcome = "ok"
       THEN /\ pcMain' = "start"
            /\ UNCHANGED <<running, pcCleanup, cleanupHist>>
       ELSE /\ pcMain' = "run_cleanup"
            /\ CleanupBegin
    /\ UNCHANGED <<vision_only, drone_is_flying, latest_analysis, airborneAck,
                   execVars, threadVars>>
    /\ UNCHANGED <<execHist, scanVars>>
    /\ UNCHANGED <<telloVars, controlVars>>

(***************************************************************************)
(* run(): self.running = True; await camera_manager.start();               *)
(* start_command_interface(); create_task(execute_user_commands())         *)
(* (main.py:322-338).  camera start may raise, which enters cleanup().     *)
(***************************************************************************)
StartRun(cameraOk) ==
    /\ pcMain = "start"
    /\ cameraOk \in BOOLEAN
    /\ IF cameraOk
       THEN /\ running' = TRUE
            /\ pcMain' = "loop"
            /\ pcExec' = "idle"
            /\ inputThread' = "reading"
            /\ UNCHANGED <<pcCleanup, cleanupHist>>
       ELSE /\ pcMain' = "run_cleanup"
            /\ CleanupBegin
            /\ UNCHANGED <<pcExec, inputThread>>
    /\ UNCHANGED <<compVars, drone_is_flying, latest_analysis, airborneAck,
                   cur, scanStep, command_queue, vision_analysis_enabled, lastTL,
                   added, signalled>>
    /\ UNCHANGED <<execHist, scanVars>>
    /\ UNCHANGED <<telloVars, controlVars>>

(***************************************************************************)
(* run(): one iteration of the main loop (main.py:342-359): capture a      *)
(* frame and process_frame() (main.py:97-123), which refreshes             *)
(* latest_analysis only while vision_analysis_enabled.                     *)
(***************************************************************************)
MainLoopIter ==
    /\ pcMain = "loop"
    /\ running
    /\ \E a \in {latest_analysis} \cup
                (IF vision_analysis_enabled THEN 0..MaxObjects ELSE {}) :
          latest_analysis' = a
    /\ UNCHANGED <<compVars, running, drone_is_flying, airborneAck, pcMain, pcCleanup,
                   execVars, threadVars, cleanupHist>>
    /\ UNCHANGED <<execHist, scanVars>>
    /\ UNCHANGED <<telloVars, controlVars>>

\* Mutant of AfterCancel: the executor task is not cancelled.
AfterCancel_KeepsRunning(pc) == pc

\* run(): command_task.cancel() (main.py:362): a task that has returned stays
\* as it is, any other is cancelled where it is suspended
AfterCancel(pc) == IF pc = "done" THEN "done" ELSE "cancelled"

(***************************************************************************)
(* run(): the main loop ends, command_task.cancel(), finally cleanup()     *)
(* (main.py:342, 361-362, 369-370).  The cancelled task runs no further    *)
(* statement: CancelledError is raised at the await it is suspended in and *)
(* is not an Exception (main.py:186).                                      *)
(***************************************************************************)
MainExit ==
    /\ pcMain = "loop"
    /\ ~running
    /\ pcExec' = AfterCancel(pcExec)
    /\ pcMain' = "run_cleanup"
    /\ CleanupBegin
    /\ UNCHANGED <<compVars, drone_is_flying, latest_analysis, airborneAck,
                   cur, scanStep, command_queue, vision_analysis_enabled, lastTL,
                   threadVars>>
    /\ UNCHANGED <<execHist, scanVars>>
    /\ UNCHANGED <<telloVars, controlVars>>

(***************************************************************************)
(* cleanup(): wait_for(execute_command(land), 10.0) is over                *)
(* (main.py:383-400).  A falsy result dispatches emergency_stop at once;   *)
(* a timeout or an exception is logged; the finally clause clears          *)
(* drone_is_flying when the block is left.  An exception no clause catches *)
(* leaves cleanup().                                                       *)
(***************************************************************************)
CleanupLandReturns(outcome) ==
    /\ pcCleanup = "land"
    /\ outcome \in LandOutcomes
    /\ airborneAck' = AckEffect("land", outcome, airborneAck)
    /\ IF outcome \in {"true", "false"}
       THEN IF Escalates(outcome)
            THEN /\ log' = log \o <<Ev(cleanupNo, "land_returns", outcome),
                                    Ev(cleanupNo, "emergency_stop", "-")>>
                 /\ pcCleanup' = "emergency"
                 /\ UNCHANGED drone_is_flying
            ELSE /\ log' = Append(log, Ev(cleanupNo, "land_returns", outcome))
                 /\ pcCleanup' = "camera"
                 /\ drone_is_flying' = FlagAfterFailSafe
       ELSE /\ log' = Append(log, Ev(cleanupNo, "land_returns", outcome))
            /\ pcCleanup' = IF CleanupCatches(outcome) THEN "camera" ELSE "aborted"
            /\ drone_is_flying' = FlagAfterFailSafe
    /\ UNCHANGED <<compVars, running, latest_analysis, pcMain, execVars, threadVars,
                   cleanupNo, flyingAtStart, ackAtStart>>
    /\ UNCHANGED <<execHist, scanVars>>
    /\ UNCHANGED <<telloVars, controlVars>>

(***************************************************************************)
(* cleanup(): await execute_command(emergency_stop) is over                *)
(* (main.py:392-400); its result is not read.                              *)
(***************************************************************************)
CleanupEmergencyReturns(outcome) ==
    /\ pcCleanup = "emergency"
    /\ outcome \in ExecuteOutcomes
    /\ airborneAck' = AckEffect("emergency_stop", outcome, airborneAck)
    /\ log' = Append(log, Ev(cleanupNo, "emergency_returns", outcome))
    /\ pcCleanup' = IF outcome = "raise" /\ ~CleanupCatches(outcome)
                    THEN "aborted" ELSE "camera"
    /\ drone_is_flying' = FlagAfterFailSafe
    /\ UNCHANGED <<compVars, running, latest_analysis, pcMain, execVars, threadVars,
                   cleanupNo, flyingAtStart, ackAtStart>>
    /\ UNCHANGED <<execHist, scanVars>>
    /\ UNCHANGED <<telloVars, controlVars>>

(***************************************************************************)
(* cleanup(): if self.camera_manager: await camera_manager.stop()          *)
(* (main.py:402-403)                                                       *)
(***************************************************************************)
CleanupCameraStop ==
    /\ pcCleanup = "camera"
    /\ log' = IF camera_manager THEN Append(log, Ev(cleanupNo, "camera_stop", "-")) ELSE log
    /\ pcCleanup' = "disconnect"
    /\ UNCHANGED <<compVars, running, drone_is_flying, latest_analysis, airborneAck,
                   pcMain, execVars, threadVars, cleanupNo, flyingAtStart, ackAtStart>>
    /\ UNCHANGED <<execHist, scanVars>>
    /\ UNCHANGED <<telloVars, controlVars>>

(***************************************************************************)
(* cleanup(): if self.tello_controller: await tello_controller.disconnect()*)
(* (main.py:405-408)                                                       *)
(***************************************************************************)
CleanupDisconnect ==
    /\ pcCleanup = "disconnect"
    /\ log' = IF tello_controller THEN Append(log, Ev(cleanupNo, "disconnect", "-")) ELSE log
    /\ pcCleanup' = "done"
    /\ UNCHANGED <<compVars, running, drone_is_flying, latest_analysis, airborneAck,
                   pcMain, execVars, threadVars, cleanupNo, flyingAtStart, ackAtStart>>
    /\ UNCHANGED <<execHist, scanVars>>
    /\ UNCHANGED <<telloVars, controlVars>>

(***************************************************************************)
(* run()'s cleanup() is over: asyncio.run returns or raises into main(),   *)
(* whose finally runs cleanup() again in a new event loop (main.py:449-462)*)
(***************************************************************************)
FinalCleanup ==
    /\ pcMain = "run_cleanup"
    /\ pcCleanup \in {"done", "aborted"}
    /\ pcMain' = "final_cleanup"
    /\ CleanupBegin
    /\ UNCHANGED <<compVars, drone_is_flying, latest_analysis, airborneAck,
                   execVars, threadVars>>
    /\ UNCHANGED <<execHist, scanVars>>
    /\ UNCHANGED <<telloVars, controlVars>>

(***************************************************************************)
(* main(): the final cleanup() is over (an exception of it is logged);     *)
(* sys.exit(1) (main.py:459-463)                                           *)
(***************************************************************************)
Exit ==
    /\ pcMain = "final_cleanup"
    /\ pcCleanup \in {"done", "aborted"}
    /\ pcMain' = "exited"
    /\ pcCleanup' = "none"
    /\ inputThread' = IF inputThread = "reading" THEN "ended" ELSE inputThread
    /\ UNCHANGED <<compVars, running, drone_is_flying, latest_analysis, airborneAck,
                   execVars, added, signalled, cleanupHist>>
    /\ UNCHANGED <<execHist, scanVars>>
    /\ UNCHANGED <<telloVars, controlVars>>

(***************************************************************************)
(* handle_signal (main.py:410-415), installed for SIGINT and SIGTERM       *)
(* (main.py:446-447): delivered at any time until the process exits.       *)
(***************************************************************************)
Signal ==
    /\ pcMain # "exited"
    /\ running' = FALSE
    /\ signalled' = TRUE
    /\ UNCHANGED <<compVars, drone_is_flying, latest_analysis, airborneAck, pcMain,
                   pcCleanup, execVars, inputThread, added, cleanupHist>>
    /\ UNCHANGED <<execHist, scanVars>>
    /\ UNCHANGED <<telloVars, controlVars>>

(***************************************************************************)
(* command_input thread (main.py:301-311): a line that is not quit/exit/   *)
(* stop is enqueued by add_command (main.py:125-128); the thread then      *)
(* re-reads self.running.                                                  *)
(***************************************************************************)
UserLine(text) ==
    /\ inputThread = "reading"
    /\ added < MaxCommands
    /\ text \in Texts
    /\ command_queue' = Append(command_queue, [id |-> added + 1, text |-> text])
    /\ added' = added + 1
    /\ inputThread' = IF running THEN "reading" ELSE "ended"
    /\ UNCHANGED <<compVars, running, drone_is_flying, latest_analysis, airborneAck,
                   pcMain, pcCleanup, pcExec, cur, scanStep, vision_analysis_enabled,
                   lastTL, signalled, cleanupHist>>
    /\ UNCHANGED <<execHist, scanVars>>
    /\ UNCHANGED <<telloVars, controlVars>>

\* command_input thread: quit/exit/stop, EOF or KeyboardInterrupt
\* (main.py:304-311)
UserQuit ==
    /\ inputThread = "reading"
    /\ running' = FALSE
    /\ inputThread' = "ended"
    /\ UNCHANGED <<compVars, drone_is_flying, latest_analysis, airborneAck, pcMain,
                   pcCleanup, execVars, added, signalled, cleanupHist>>
    /\ UNCHANGED <<execHist, scanVars>>
    /\ UNCHANGED <<telloVars, controlVars>>

(***************************************************************************)
(* execute_user_commands (main.py:130-188).                                *)
(***************************************************************************)

\* while self.running is false at the top of the loop (main.py:132)
ExecStop ==
    /\ pcExec = "idle"
    /\ ~running
    /\ pcExec' = "done"
    /\ UNCHANGED <<compVars, running, drone_is_flying, latest_analysis, airborneAck,
                   pcMain, pcCleanup, cur, scanStep, command_queue,
                   vision_analysis_enabled, lastTL, threadVars, cleanupHist>>
    /\ UNCHANGED <<execHist, scanVars>>
    /\ UNCHANGED <<telloVars, controlVars>>

\* get_nowait() raises queue.Empty: await asyncio.sleep(0.1) (main.py:182-184)
ExecIdle ==
    /\ pcExec = "idle"
    /\ running
    /\ command_queue = <<>>
    /\ UNCHANGED vars

\* get_nowait() yields an instruction (main.py:136-148, 167-180): the vision
\* keywords enable VisionAssist; in full mode the executor then awaits the
\* translation; in vision-only mode it analyses an image or only logs.
ExecDequeue ==
    /\ pcExec = "idle"
    /\ running
    /\ command_queue # <<>>
    /\ LET got == GetNowait(command_queue)
           text == got.item.text
           vision == IF text.kw THEN TRUE ELSE vision_analysis_enabled
       IN  /\ command_queue' = got.rest
           /\ lastTaken' = got.item.id
           /\ IF control_agent
              THEN /\ pcExec' = "translating"
                   /\ cur' = [text |-> text, action |-> "none"]
                   /\ vision_analysis_enabled' = vision
              ELSE IF text.analysis
              THEN \* _execute_image_analysis up to its sleep (main.py:240-246)
                   /\ pcExec' = "analysis"
                   /\ cur' = [text |-> text, action |-> "none"]
                   /\ vision_analysis_enabled' = TRUE
              ELSE /\ pcExec' = "idle"
                   /\ cur' = NoCommand
                   /\ vision_analysis_enabled' = AfterCommand(text, vision)
    /\ UNCHANGED <<compVars, running, drone_is_flying, latest_analysis, airborneAck,
                   pcMain, pcCleanup, scanStep, lastTL, threadVars, cleanupHist>>
    /\ UNCHANGED scanVars
    /\ UNCHANGED <<telloVars, controlVars>>

\* _execute_image_analysis after its sleep (main.py:248-278), then the end of
\* the executor's iteration (main.py:175-180)
ExecAnalysed ==
    /\ pcExec = "analysis"
    /\ vision_analysis_enabled' = AfterCommand(cur.text, FALSE)
    /\ pcExec' = "idle"
    /\ cur' = NoCommand
    /\ UNCHANGED <<compVars, running, drone_is_flying, latest_analysis, airborneAck,
                   pcMain, pcCleanup, scanStep, command_queue, lastTL, threadVars,
                   cleanupHist>>
    /\ UNCHANGED <<execHist, scanVars>>
    /\ UNCHANGED <<telloVars, controlVars>>

\* await control_agent.process_command(command_text) is over
\* (main.py:148-166, 186-188): an exception goes to the outer handler, which
\* skips the rest of the iteration; a falsy command is logged; a command
\* is tracked in FlightState and dispatched, as a sweep or as itself.
ExecTranslated(outcome, action) ==
    /\ pcExec = "translating"
    /\ outcome \in TranslateOutcomes
    /\ action \in DroneAction
    /\ IF outcome = "raise"
       THEN /\ pcExec' = "idle"
            /\ cur' = NoCommand
            /\ UNCHANGED <<drone_is_flying, vision_analysis_enabled, scanStep, lastTL, swept>>
       ELSE IF outcome = "none" \/ ~tello_controller
       THEN /\ pcExec' = "idle"
            /\ cur' = NoCommand
            /\ vision_analysis_enabled' = AfterCommand(cur.text, vision_analysis_enabled)
            /\ UNCHANGED <<drone_is_flying, scanStep, lastTL, swept>>
       ELSE /\ drone_is_flying' = TrackFlightState(action, drone_is_flying)
            /\ lastTL' = IF action \in {"takeoff", "land"} THEN action ELSE lastTL
            /\ cur' = [cur EXCEPT !.action = action]
            /\ IF IsScanCommand(action, cur.text)
               THEN \* _execute_360_scan up to its first rotation (main.py:190-212)
                    /\ vision_analysis_enabled' = TRUE
                    /\ scanStep' = 0
                    /\ swept' = angles_per_step
                    /\ pcExec' = "scan_rotate"
               ELSE /\ pcExec' = "dispatching"
                    /\ UNCHANGED <<vision_analysis_enabled, scanStep, swept>>
    /\ UNCHANGED <<compVars, running, latest_analysis, airborneAck, pcMain, pcCleanup,
                   command_queue, threadVars, cleanupHist>>
    /\ UNCHANGED <<lastTaken, detected_objects, seen>>
    /\ UNCHANGED <<telloVars, controlVars>>

\* await tello_controller.execute_command(command) is over (main.py:164,
\* 175-180, 186-188)
ExecDispatched(outcome) ==
    /\ pcExec = "dispatching"
    /\ outcome \in ExecuteOutcomes
    /\ airborneAck' = AckEffect(cur.action, outcome, airborneAck)
    /\ vision_analysis_enabled' =
          IF outcome = "raise" THEN vision_analysis_enabled
          ELSE AfterCommand(cur.text, vision_analysis_enabled)
    /\ pcExec' = AfterFailure(outcome)
    /\ cur' = NoCommand
    /\ UNCHANGED <<compVars, running, drone_is_flying, latest_analysis, pcMain,
                   pcCleanup, scanStep, command_queue, lastTL, threadVars, cleanupHist>>
    /\ UNCHANGED <<lastTaken, scanVars>>
    /\ UNCHANGED <<telloVars, controlVars>>

\* _execute_360_scan: the rotation of this step is over; sleep 2 s
\* (main.py:211-215).  An exception leaves the sweep for the outer handler.
ExecScanRotated(outcome) ==
    /\ pcExec = "scan_rotate"
    /\ outcome \in ExecuteOutcomes
    /\ IF outcome = "raise"
       THEN /\ pcExec' = "idle" /\ cur' = NoCommand /\ scanStep' = 0
            /\ detected_objects' = 0 /\ seen' = 0 /\ swept' = 0
       ELSE /\ pcExec' = "scan_settle" /\ cur' = cur /\ scanStep' = scanStep
            /\ UNCHANGED scanVars
    /\ UNCHANGED <<compVars, running, drone_is_flying, latest_analysis, airborneAck,
                   pcMain, pcCleanup, command_queue, vision_analysis_enabled,
                   lastTL, threadVars, cleanupHist>>
    /\ UNCHANGED lastTaken
    /\ UNCHANGED <<telloVars, controlVars>>

\* _execute_360_scan: after the settle delay the snapshot is read and the next
\* rotation dispatched, or the sweep ends (main.py:206-238) and with it the
\* executor's iteration (main.py:175-180)
ExecScanSettled ==
    /\ pcExec = "scan_settle"
    /\ IF MoreSteps(scanStep)
       THEN /\ detected_objects' = DetectedAfter(detected_objects, latest_analysis)
            /\ seen' = seen + (IF latest_analysis = NoAnalysis THEN 0 ELSE latest_analysis)
            /\ scanStep' = scanStep + 1
            /\ swept' = swept + angles_per_step
            /\ pcExec' = "scan_rotate"
            /\ UNCHANGED <<cur, vision_analysis_enabled>>
       ELSE \* the total is logged (main.py:232-233) and the sweep returns
            /\ detected_objects' = 0 /\ seen' = 0 /\ swept' = 0
            /\ scanStep' = 0
            /\ pcExec' = "idle"
            /\ cur' = NoCommand
            /\ vision_analysis_enabled' = AfterCommand(cur.text, FALSE)
    /\ UNCHANGED <<compVars, running, drone_is_flying, latest_analysis, airborneAck,
                   pcMain, pcCleanup, command_queue, lastTL, threadVars, cleanupHist>>
    /\ UNCHANGED execHist
    /\ UNCHANGED <<telloVars, controlVars>>

(***************************************************************************)
(* Part II - SimpleTello (simple_tello.py).                                *)
(***************************************************************************)
Callers == 1..NumCallers
RecvId == NumCallers + 1

\* A datagram from the vehicle: the command it answers (which the wire does
\* not carry: it is kept here to state properties) and whether it holds "ok".
Datagrams == [for : 1..MaxCalls, ok : BOOLEAN]

\* self.response = None (simple_tello.py:30, 210)
NoResponse == [for |-> 0, ok |-> FALSE]

\* for attempt in range(3) (simple_tello.py:213)
RetryLimit == 3

\* Who calls send_command: connect() (simple_tello.py:118), close() through
\* streamoff() (simple_tello.py:335, 288), or any other command method.
CallKinds == {"connect", "close", "command"}

\* Mutant of IsLastAttempt: a fourth attempt is allowed.
IsLastAttempt_OneMore(a) == a = RetryLimit

\* if attempt == 2: return None (simple_tello.py:219-221)
IsLastAttempt(a) == a = RetryLimit - 1

\* Mutant of TimedOut: the comparison allows one more poll interval.
TimedOut_Late(e) == e > TimeoutTicks + 1

\* elapsed > timeout (simple_tello.py:230)
TimedOut(e) == e > TimeoutTicks

\* SimpleTello.__init__ (simple_tello.py:15-42): the socket is set up and the
\* receiver thread started.
TelloInit ==
    /\ response = NoResponse
    /\ lock = 0
    /\ socket_closed = FALSE
    /\ is_connected = FALSE
    /\ pcCaller = [c \in Callers |-> "idle"]
    /\ callKind = [c \in Callers |-> "command"]
    /\ cmdOf = [c \in Callers |-> 0]
    /\ attempt = [c \in Callers |-> 0]
    /\ elapsed = [c \in Callers |-> 0]
    /\ wake = [c \in Callers |-> FALSE]
    /\ pcRecv = "recv"
    /\ recvBuf = NoResponse
    /\ pending = {}
    /\ calls = 0
    /\ abandoned = {}
    /\ storedAt = 0
    /\ taken = 0
    /\ exitedAt = -1

\* send_command returns value to its caller, which acts on it:
\* connect() sets is_connected on an "ok" (simple_tello.py:118-122), close()
\* closes the socket after streamoff() (simple_tello.py:334-336).
Return(c, value) ==
    /\ pcCaller' = [pcCaller EXCEPT ![c] = "idle"]
    /\ callKind' = [callKind EXCEPT ![c] = "command"]
    /\ cmdOf' = [cmdOf EXCEPT ![c] = 0]
    /\ attempt' = [attempt EXCEPT ![c] = 0]
    /\ elapsed' = [elapsed EXCEPT ![c] = 0]
    /\ is_connected' = IF callKind[c] = "connect" /\ value # NoResponse /\ value.ok
                       THEN TRUE ELSE is_connected
    /\ socket_closed' = IF callKind[c] = "close" THEN TRUE ELSE socket_closed

\* Mutant of StreamoffFirst: close() never stops the stream.
StreamoffFirst_Never(connected) == FALSE

\* close(): if self.is_connected: self.streamoff() (simple_tello.py:334-335)
StreamoffFirst(connected) == connected

\* A thread calls send_command (simple_tello.py:187-206); close() calls it
\* only when connected, and otherwise closes the socket at once
\* (simple_tello.py:331-336).  The threads are interchangeable: they are
\* numbered in the order of their first call.
Call(c, kind) ==
    /\ pcCaller[c] = "idle"
    /\ calls < MaxCalls
    /\ c <= calls + 1
    /\ kind \in CallKinds
    /\ IF kind = "close" /\ ~StreamoffFirst(is_connected)
       THEN /\ socket_closed' = TRUE
            /\ UNCHANGED <<pcCaller, callKind, cmdOf, calls, abandoned>>
       ELSE /\ pcCaller' = [pcCaller EXCEPT ![c] = "clear"]
            /\ callKind' = [callKind EXCEPT ![c] = kind]
            /\ cmdOf' = [cmdOf EXCEPT ![c] = calls + 1]
            /\ calls' = calls + 1
            /\ UNCHANGED socket_closed
    /\ UNCHANGED <<response, lock, is_connected, attempt, elapsed, wake,
                   pcRecv, recvBuf, pending, abandoned>>
    /\ UNCHANGED slotHist
    /\ UNCHANGED exitedAt
    /\ UNCHANGED <<agentVars, controlVars>>

\* with self.response_condition: (simple_tello.py:209)
AcquireForClear(c) ==
    /\ pcCaller[c] = "clear"
    /\ lock = 0
    /\ lock' = c
    /\ pcCaller' = [pcCaller EXCEPT ![c] = "clearing"]
    /\ UNCHANGED <<response, socket_closed, is_connected, callKind, cmdOf, attempt,
                   elapsed, wake, pcRecv, recvBuf, pending, calls, abandoned>>
    /\ UNCHANGED slotHist
    /\ UNCHANGED exitedAt
    /\ UNCHANGED <<agentVars, controlVars>>

\* Mutant of ClearedSlot: the slot is left as it was.
ClearedSlot_Kept(r) == r

\* self.response = None (simple_tello.py:210): what the slot holds afterwards
ClearedSlot(r) == NoResponse

\* self.response = None, and the lock is released (simple_tello.py:210)
Clear(c) ==
    /\ pcCaller[c] = "clearing"
    /\ response' = ClearedSlot(response)
    /\ storedAt' = IF response' = NoResponse THEN 0 ELSE storedAt
    /\ taken' = IF response' = NoResponse THEN 0 ELSE taken
    /\ lock' = 0
    /\ pcCaller' = [pcCaller EXCEPT ![c] = "send"]
    /\ UNCHANGED <<socket_closed, is_connected, callKind, cmdOf, attempt, elapsed, wake,
                   pcRecv, recvBuf, pending, calls, abandoned>>
    /\ UNCHANGED exitedAt
    /\ UNCHANGED <<agentVars, controlVars>>

\* Mutant of AfterSent: a successful send does not leave the retry loop.
AfterSent_Retries == "backoff"

\* break (simple_tello.py:217): a successful send leaves the retry loop for
\* the wait
AfterSent == "wait_enter"

\* self.socket.sendto(...) (simple_tello.py:214-223, 226): it raises OSError
\* on a closed socket and may do so on an open one.  A success ends the
\* retry loop and start_time is taken; the last failure returns None.
SendAttempt(c, ok) ==
    /\ pcCaller[c] = "send"
    /\ ok \in BOOLEAN
    /\ ok => ~socket_closed
    /\ IF ok
       THEN /\ pending' = pending \cup {cmdOf[c]}
            /\ attempt' = [attempt EXCEPT ![c] = 0]
            /\ pcCaller' = [pcCaller EXCEPT ![c] = AfterSent]
            /\ UNCHANGED <<callKind, cmdOf, elapsed, is_connected, socket_closed>>
       ELSE IF IsLastAttempt(attempt[c])
       THEN /\ Return(c, NoResponse)
            /\ UNCHANGED pending
       ELSE /\ pcCaller' = [pcCaller EXCEPT ![c] = "backoff"]
            /\ UNCHANGED <<pending, callKind, cmdOf, attempt, elapsed, is_connected,
                           socket_closed>>
    /\ UNCHANGED <<response, lock, wake, pcRecv, recvBuf, calls, abandoned>>
    /\ UNCHANGED slotHist
    /\ UNCHANGED exitedAt
    /\ UNCHANGED <<agentVars, controlVars>>

\* time.sleep(0.5), then the next attempt (simple_tello.py:213, 223)
Backoff(c) ==
    /\ pcCaller[c] = "backoff"
    /\ attempt' = [attempt EXCEPT ![c] = attempt[c] + 1]
    /\ pcCaller' = [pcCaller EXCEPT ![c] = "send"]
    /\ UNCHANGED <<response, lock, socket_closed, is_connected, callKind, cmdOf,
                   elapsed, wake, pcRecv, recvBuf, pending, calls, abandoned>>
    /\ UNCHANGED slotHist
    /\ UNCHANGED exitedAt
    /\ UNCHANGED <<agentVars, controlVars>>

\* with self.response_condition: (simple_tello.py:227), or the re-acquisition
\* of the lock when response_condition.wait returns, on a notify or after
\* its 0.1 s (simple_tello.py:234)
AcquireForWait(c) ==
    /\ \/ pcCaller[c] = "wait_enter"
       \/ pcCaller[c] = "wait_cond" /\ wake[c]
    /\ lock = 0
    /\ lock' = c
    /\ wake' = [wake EXCEPT ![c] = FALSE]
    /\ pcCaller' = [pcCaller EXCEPT ![c] = "wait_check"]
    /\ UNCHANGED <<response, socket_closed, is_connected, callKind, cmdOf, attempt,
                   elapsed, pcRecv, recvBuf, pending, calls, abandoned>>
    /\ UNCHANGED slotHist
    /\ UNCHANGED exitedAt
    /\ UNCHANGED <<agentVars, controlVars>>

\* Mutant of LockWhileWaiting: the wait keeps the lock.
LockWhileWaiting_Held(c) == c

\* response_condition.wait(timeout=0.1) (simple_tello.py:234): the holder of
\* the lock while the thread is blocked in it
LockWhileWaiting(c) == 0

\* One evaluation of the wait loop, holding the lock (simple_tello.py:228-234):
\* the slot is set and the loop and the with block are left; or the call has
\* timed out and returns None; or the thread waits, releasing the lock.
WaitCheck(c) ==
    /\ pcCaller[c] = "wait_check"
    /\ lock' = IF response = NoResponse /\ ~TimedOut(elapsed[c])
               THEN LockWhileWaiting(c) ELSE 0
    /\ IF response # NoResponse
       THEN /\ pcCaller' = [pcCaller EXCEPT ![c] = "read"]
            /\ elapsed' = [elapsed EXCEPT ![c] = 0]
            /\ UNCHANGED <<callKind, cmdOf, attempt, is_connected, socket_closed, abandoned>>
       ELSE IF TimedOut(elapsed[c])
       THEN /\ Return(c, NoResponse)
            /\ abandoned' = abandoned \cup {cmdOf[c]}
       ELSE /\ pcCaller' = [pcCaller EXCEPT ![c] = "wait_cond"]
            /\ UNCHANGED <<callKind, cmdOf, attempt, elapsed, is_connected, socket_closed,
                           abandoned>>
    /\ UNCHANGED <<response, wake, pcRecv, recvBuf, pending, calls>>
    /\ UNCHANGED slotHist
    /\ UNCHANGED exitedAt
    /\ UNCHANGED <<agentVars, controlVars>>

\* return self.response, read without the lock (simple_tello.py:236-237)
ReadResponse(c) ==
    /\ pcCaller[c] = "read"
    /\ Return(c, response)
    /\ taken' = IF response # NoResponse THEN taken + 1 ELSE taken
    /\ UNCHANGED storedAt
    /\ UNCHANGED <<response, lock, wake, pcRecv, recvBuf, pending, calls, abandoned>>
    /\ UNCHANGED exitedAt
    /\ UNCHANGED <<agentVars, controlVars>>

\* Callers past start_time = time.time() (simple_tello.py:226)
Timing == {c \in Callers : pcCaller[c] \in {"wait_enter", "wait_check", "wait_cond"}}

\* One poll interval (0.1 s) passes: elapsed grows for every call that is past
\* start_time, and every response_condition.wait(timeout=0.1) in progress may
\* return (simple_tello.py:229, 234).  Statements take no time next to a poll
\* interval: the interval passes only while every such call is blocked in wait.
Tick ==
    /\ Timing # {}
    /\ \A c \in Timing : pcCaller[c] = "wait_cond" /\ ~wake[c]
    /\ elapsed' = [c \in Callers |-> IF c \in Timing THEN elapsed[c] + 1 ELSE elapsed[c]]
    /\ wake' = [c \in Callers |-> c \in Timing]
    /\ UNCHANGED <<response, lock, socket_closed, is_connected, pcCaller, callKind,
                   cmdOf, attempt, pcRecv, recvBuf, pending, calls, abandoned>>
    /\ UNCHANGED slotHist
    /\ UNCHANGED exitedAt
    /\ UNCHANGED <<agentVars, controlVars>>

\* _receive_thread: recvfrom returns a datagram (simple_tello.py:249-250), the
\* vehicle's reply to a command it was sent; the vehicle replies to a command
\* once, at any time after it was sent, or never.
Receive(d) ==
    /\ pcRecv = "recv"
    /\ ~socket_closed
    /\ d \in Datagrams
    /\ d.for \in pending
    /\ pending' = pending \ {d.for}
    /\ recvBuf' = d
    /\ pcRecv' = "store_enter"
    /\ UNCHANGED <<response, lock, socket_closed, is_connected, pcCaller, callKind,
                   cmdOf, attempt, elapsed, wake, calls, abandoned>>
    /\ UNCHANGED slotHist
    /\ UNCHANGED exitedAt
    /\ UNCHANGED <<agentVars, controlVars>>

\* _receive_thread: with self.response_condition: (simple_tello.py:252)
AcquireForStore ==
    /\ pcRecv = "store_enter"
    /\ lock = 0
    /\ lock' = RecvId
    /\ pcRecv' = "storing"
    /\ UNCHANGED <<response, socket_closed, is_connected, pcCaller, callKind, cmdOf,
                   attempt, elapsed, wake, recvBuf, pending, calls, abandoned>>
    /\ UNCHANGED slotHist
    /\ UNCHANGED exitedAt
    /\ UNCHANGED <<agentVars, controlVars>>

\* _receive_thread: self.response = response; notify_all(); the lock is
\* released and the thread goes back to recvfrom (simple_tello.py:253-254)
Store ==
    /\ pcRecv = "storing"
    /\ response' = recvBuf
    /\ storedAt' = calls
    /\ taken' = 0
    /\ recvBuf' = NoResponse
    /\ wake' = [c \in Callers |-> wake[c] \/ pcCaller[c] = "wait_cond"]
    /\ lock' = 0
    /\ pcRecv' = "recv"
    /\ UNCHANGED <<socket_closed, is_connected, pcCaller, callKind, cmdOf, attempt,
                   elapsed, pending, calls, abandoned>>
    /\ UNCHANGED exitedAt
    /\ UNCHANGED <<agentVars, controlVars>>

\* Mutant of AfterSocketError: the receiver goes back to recvfrom.
AfterSocketError_Continues == "recv"

\* _receive_thread: except socket.error: break (simple_tello.py:256-258)
AfterSocketError == "exited"

\* _receive_thread: recvfrom raises socket.error (simple_tello.py:249,
\* 256-258): it does on the closed socket, and may on an open one (an error
\* of the network reported on the socket); the thread ends.
ReceiveError ==
    /\ pcRecv = "recv"
    /\ pcRecv' = AfterSocketError
    /\ exitedAt' = IF exitedAt = -1 THEN calls ELSE exitedAt
    /\ UNCHANGED <<response, lock, socket_closed, is_connected, pcCaller, callKind,
                   cmdOf, attempt, elapsed, wake, recvBuf, pending, calls, abandoned>>
    /\ UNCHANGED slotHist
    /\ UNCHANGED <<agentVars, controlVars>>

TelloNext ==
    \/ \E c \in Callers, k \in CallKinds : Call(c, k)
    \/ \E c \in Callers : AcquireForClear(c)
    \/ \E c \in Callers : Clear(c)
    \/ \E c \in Callers, ok \in BOOLEAN : SendAttempt(c, ok)
    \/ \E c \in Callers : Backoff(c)
    \/ \E c \in Callers : AcquireForWait(c)
    \/ \E c \in Callers : WaitCheck(c)
    \/ \E c \in Callers : ReadResponse(c)
    \/ Tick
    \/ \E d \in Datagrams : Receive(d)
    \/ AcquireForStore
    \/ Store
    \/ ReceiveError

(***************************************************************************)
(* Part III - ControlAgent (control_agent.py).                             *)
(***************************************************************************)

\* command_schema: the largest distance, angle and duration (control_agent.py:40-42)
MaxDistance == 500
MaxAngle == 360
MaxDuration == 30

\* valid_actions (control_agent.py:160)
valid_actions == {"takeoff", "land", "move", "rotate", "hover", "scan", "emergency"}

\* What the language model may reply (control_agent.py:86-97): the call or
\* json.loads fails ("failed"), the JSON is not an object ("other"), or it
\* is an object.  Of an object: its action ("missing" when the key is
\* absent), whether it has a description, its safety_check ("true" and
\* "false" for the booleans, "other" for any other value, "missing"), and
\* its distance, angle and duration, at and beyond the ends of the ranges
\* of command_schema.
Replies ==
    [kind : {"object"},
     action : valid_actions \cup {"flip", "missing"},
     description : BOOLEAN,
     safety_check : {"true", "false", "other", "missing"},
     distance : {-1, 0, MaxDistance, MaxDistance + 1},
     angle : {-MaxAngle - 1, -MaxAngle, MaxAngle, MaxAngle + 1},
     duration : {-1, 0, MaxDuration, MaxDuration + 1},
     error : {FALSE}]
    \cup
    [kind : {"failed", "other"}, action : {"missing"}, description : {FALSE},
     safety_check : {"missing"}, distance : {0}, angle : {0}, duration : {0},
     error : {FALSE}]

NoReply == [kind |-> "none", action |-> "missing", description |-> FALSE,
            safety_check |-> "missing", distance |-> 0, angle |-> 0, duration |-> 0,
            error |-> FALSE]

\* _validate_command (control_agent.py:140-172)
_validate_command(command) ==
    /\ command.kind = "object"
    /\ command.action # "missing" /\ command.description /\ command.safety_check # "missing"
    /\ command.action \in valid_actions
    /\ command.safety_check \in {"true", "false"}

\* _get_error_command (control_agent.py:174-189)
_get_error_command ==
    [kind |-> "object", action |-> "emergency", description |-> TRUE,
     safety_check |-> "false", distance |-> 0, angle |-> 0, duration |-> 0,
     error |-> TRUE]

\* process_command from the reply on (control_agent.py:99-114): a failed call
\* or parse and a failed validation both end in the except clause
process_command(r) ==
    IF r.kind # "failed" /\ _validate_command(r) THEN r ELSE _get_error_command

\* execute_user_commands: "if command and self.tello_controller"
\* (main.py:149), with a controller: a dict with keys is true
Truthy(command) == command.kind = "object"

ControlInit ==
    /\ pcControl = "idle"
    /\ reply = NoReply
    /\ command_json = NoReply
    /\ handed = "none"

\* process_command: the language model has replied (control_agent.py:86-97)
Translate(r) ==
    /\ pcControl = "idle"
    /\ r \in Replies
    /\ reply' = r
    /\ pcControl' = "replied"
    /\ UNCHANGED <<command_json, handed>>
    /\ UNCHANGED <<agentVars, telloVars>>

\* process_command returns (control_agent.py:99-114)
ProcessReturns ==
    /\ pcControl = "replied"
    /\ command_json' = process_command(reply)
    /\ pcControl' = "returned"
    /\ UNCHANGED <<reply, handed>>
    /\ UNCHANGED <<agentVars, telloVars>>

\* execute_user_commands tests what it got and goes on to dispatch it
\* (main.py:148-164)
ExecutorGuard ==
    /\ pcControl = "returned"
    /\ handed' = IF Truthy(command_json) THEN command_json.action ELSE "none"
    /\ pcControl' = "guarded"
    /\ UNCHANGED <<reply, command_json>>
    /\ UNCHANGED <<agentVars, telloVars>>

ControlNext ==
    \/ \E r \in Replies : Translate(r)
    \/ ProcessReturns
    \/ ExecutorGuard

(***************************************************************************)
(* Specifications.                                                         *)
(***************************************************************************)
Init == AgentInit /\ TelloInit /\ ControlInit

MainStep ==
    \/ \E o \in {"ok", "fail_camera", "fail_control", "fail_controller"} : Initialize(o)
    \/ \E ok \in BOOLEAN : StartRun(ok)
    \/ MainLoopIter
    \/ MainExit
    \/ \E o \in LandOutcomes : CleanupLandReturns(o)
    \/ \E o \in ExecuteOutcomes : CleanupEmergencyReturns(o)
    \/ CleanupCameraStop
    \/ CleanupDisconnect
    \/ FinalCleanup
    \/ Exit

ExecStep ==
    \/ ExecStop
    \/ ExecIdle
    \/ ExecDequeue
    \/ ExecAnalysed
    \/ \E o \in TranslateOutcomes, a \in DroneAction : ExecTranslated(o, a)
    \/ \E o \in ExecuteOutcomes : ExecDispatched(o)
    \/ \E o \in ExecuteOutcomes : ExecScanRotated(o)
    \/ ExecScanSettled

Next ==
    \/ \E o \in {"ok", "fail_camera", "fail_control", "fail_controller"} : Initialize(o)
    \/ \E ok \in BOOLEAN : StartRun(ok)
    \/ MainLoopIter
    \/ MainExit
    \/ \E o \in LandOutcomes : CleanupLandReturns(o)
    \/ \E o \in ExecuteOutcomes : CleanupEmergencyReturns(o)
    \/ CleanupCameraStop
    \/ CleanupDisconnect
    \/ FinalCleanup
    \/ Exit
    \/ ExecStop
    \/ ExecIdle
    \/ ExecDequeue
    \/ ExecAnalysed
    \/ \E o \in TranslateOutcomes, a \in DroneAction : ExecTranslated(o, a)
    \/ \E o \in ExecuteOutcomes : ExecDispatched(o)
    \/ \E o \in ExecuteOutcomes : ExecScanRotated(o)
    \/ ExecScanSettled
    \/ Signal
    \/ \E t \in Texts : UserLine(t)
    \/ UserQuit

Spec == Init /\ [][Next]_vars

\* SimpleTello on its own; the agent stays as constructed, in full-control mode.
FullControlInit == Init /\ ~vision_only

TelloSpec == FullControlInit /\ [][TelloNext]_vars

\* The event loop keeps running the main coroutine and the executor task, and
\* every awaited call comes back; the user and the signals owe nothing.
FairSpec == Spec /\ WF_vars(MainStep) /\ WF_vars(ExecStep)

\* One translation on its own; the agent stays as constructed.
ControlSpec == FullControlInit /\ [][ControlNext]_vars

(***************************************************************************)
(* Part I - properties.                                                    *)
(***************************************************************************)

\* Number of entries of cleanup() number n with event ev
Count(n, ev) == Cardinality({i \in DOMAIN log : log[i].n = n /\ log[i].ev = ev})

\* Number of entries with event ev, over all cleanup() invocations
Total(ev) == Cardinality({i \in DOMAIN log : log[i].ev = ev})

Releases == {"camera_stop", "disconnect"}

\* C1: on every teardown path, a cleanup() that starts while the vehicle is
\* airborne (an acknowledged takeoff not followed by an acknowledged land or
\* emergency stop) dispatches land or emergency_stop before it disconnects
\* the controller.
C1_AirborneVehicleIsCommanded ==
    \A j \in DOMAIN log :
        (log[j].ev = "disconnect" /\ ackAtStart[log[j].n]) =>
            \E i \in 1..(j - 1) :
                log[i].n = log[j].n /\ log[i].ev \in {"land", "emergency_stop"}

\* C2: a cleanup() that starts with FlightState = AIRBORNE (drone_is_flying,
\* controller present, not vision-only) dispatches land, and does so before
\* it stops the camera and before it disconnects the controller.
C2_LandBeforeRelease ==
    \A n \in 1..cleanupNo :
        flyingAtStart[n] =>
            /\ Count(n, "land") >= 1
            /\ \A j \in DOMAIN log :
                  (log[j].n = n /\ log[j].ev \in Releases) =>
                      \E i \in 1..(j - 1) : log[i].n = n /\ log[i].ev = "land"

\* C2 witness: a shutdown triggered by a signal found the drone flying, landed
\* it and went on to disconnect the controller.
C2_Witness ==
    /\ signalled
    /\ cleanupNo >= 1
    /\ flyingAtStart[1]
    /\ Count(1, "land") = 1
    /\ Count(1, "disconnect") = 1

\* C4: when the fail-safe land times out or raises, cleanup() dispatches
\* emergency_stop before it releases resources.
C4_EscalatesOnTimeoutOrRaise ==
    \A i \in DOMAIN log :
        (log[i].ev = "land_returns" /\ log[i].res \in {"timeout", "raise"}) =>
            \A k \in DOMAIN log :
                (k > i /\ log[k].n = log[i].n /\ log[k].ev \in Releases) =>
                    \E j \in (i + 1)..(k - 1) :
                        log[j].n = log[i].n /\ log[j].ev = "emergency_stop"

\* C5: when the fail-safe land returns False, cleanup() dispatches
\* emergency_stop exactly once, after the land and before any resource is
\* released; when it returns True no emergency_stop is dispatched.
C5_EscalatesOnFalseOnly ==
    \A i \in DOMAIN log :
        log[i].ev = "land_returns" =>
            LET n == log[i].n IN
            /\ log[i].res = "true" => Count(n, "emergency_stop") = 0
            /\ log[i].res = "false" =>
                  /\ Count(n, "emergency_stop") = 1
                  /\ \E j \in DOMAIN log :
                        /\ j > i
                        /\ log[j] = Ev(n, "emergency_stop", "-")
                        /\ \E l \in 1..(j - 1) : log[l] = Ev(n, "land", "-")
                        /\ \A k \in DOMAIN log :
                              (log[k].n = n /\ log[k].ev \in Releases) => k > j

\* C5 witness: a land that returned False, escalated, and the cleanup went on
\* to disconnect.
C5_Witness ==
    \E i \in DOMAIN log :
        /\ log[i].ev = "land_returns" /\ log[i].res = "false"
        /\ Count(log[i].n, "emergency_stop") = 1
        /\ Count(log[i].n, "disconnect") = 1

\* C6: when a shutdown begins while FlightState = AIRBORNE, exactly one
\* fail-safe land is dispatched in the process lifetime, however many times
\* cleanup() runs and whenever signals arrive.
C6_ExactlyOneLand ==
    /\ Total("land") <= 1
    /\ (\E n \in 1..cleanupNo : flyingAtStart[n]) => Total("land") = 1

\* C6 witness: both cleanup() invocations ran to the end, a signal was
\* delivered, and the first found the drone flying.
C6_Witness ==
    /\ pcMain = "exited"
    /\ cleanupNo = 2
    /\ signalled
    /\ flyingAtStart[1]
    /\ Total("land") = 1

InProgress == {"land", "emergency", "camera", "disconnect"}

Rank(pc) ==
    CASE pc = "land" -> 1
      [] pc = "emergency" -> 2
      [] pc = "camera" -> 3
      [] pc = "disconnect" -> 4
      [] OTHER -> 5

CleanupStep ==
    \/ \E o \in LandOutcomes : CleanupLandReturns(o)
    \/ \E o \in ExecuteOutcomes : CleanupEmergencyReturns(o)
    \/ CleanupCameraStop
    \/ CleanupDisconnect

\* Whether cleanup() number n is over
Finished(n) == n < cleanupNo \/ (n = cleanupNo /\ pcCleanup \in {"done", "aborted", "none"})

\* C7: cleanup() always terminates and always reaches camera stop and
\* controller disconnect, whatever the fail-safe land and emergency_stop
\* come back with; one cleanup() dispatches at most one land and at most one
\* emergency_stop.  Termination: a cleanup() in progress always has a next
\* step, and every step of it moves strictly forward.
C7_CleanupCompletes ==
    /\ [](/\ pcCleanup # "aborted"
          /\ pcCleanup \in InProgress => ENABLED CleanupStep
          /\ \A n \in 1..cleanupNo :
                /\ Count(n, "land") <= 1
                /\ Count(n, "emergency_stop") <= 1
                /\ Finished(n) =>
                      /\ camera_manager => Count(n, "camera_stop") = 1
                      /\ tello_controller => Count(n, "disconnect") = 1)
    /\ [][(pcCleanup \in InProgress /\ pcCleanup' # pcCleanup) =>
              (cleanupNo' = cleanupNo /\ Rank(pcCleanup') > Rank(pcCleanup))]_vars

\* C7 witness: a cleanup() whose land and emergency_stop both raised or
\* failed has finished and released both resources.
C7_Witness ==
    \E i \in DOMAIN log :
        /\ log[i].ev = "emergency_returns" /\ log[i].res = "raise"
        /\ Finished(log[i].n)
        /\ Count(log[i].n, "camera_stop") = 1
        /\ Count(log[i].n, "disconnect") = 1

\* C8: once SIGINT or SIGTERM has been delivered - at any point after the
\* handlers are installed - the main loop eventually stops and the process
\* exits, after the fail-safe cleanup has run.
C8_SignalLeadsToExit ==
    signalled ~> (pcMain = "exited" /\ cleanupNo >= 1)

\* C9: when the executor has handled an emergency_stop action, FlightState
\* is GROUNDED whatever it was before.
C9_EmergencyStopGrounds ==
    [][(pcExec = "dispatching" /\ cur.action = "emergency_stop" /\ pcExec' = "idle")
          => ~drone_is_flying']_vars

\* C10: FlightState starts GROUNDED and, as long as only the executor has
\* written it, it is AIRBORNE exactly when the last takeoff-or-land action
\* the executor handled was a takeoff.
C10_FlightStateTracksLastTakeoffOrLand ==
    pcMain \in {"initialize", "start", "loop"} =>
        (drone_is_flying <=> lastTL = "takeoff")

\* C10 witness: takeoff was handled and acknowledged, then land was handled
\* and is being dispatched: FlightState is GROUNDED.
C10_Witness ==
    /\ pcMain = "loop"
    /\ pcExec = "dispatching"
    /\ cur.action = "land"
    /\ airborneAck
    /\ lastTL = "land"
    /\ ~drone_is_flying

(***************************************************************************)
(* Part II - properties.                                                   *)
(***************************************************************************)

\* Callers whose command is outstanding: transmitted, its response awaited
Outstanding == {c \in Callers : pcCaller[c] \in {"wait_enter", "wait_check", "wait_cond"}}

\* C3: for every interleaving of concurrent send_command calls, at most one
\* command is outstanding at any instant, and while one is outstanding no
\* other call clears the response slot or transmits its datagram.
C3_SingleFlight ==
    /\ [](Cardinality(Outstanding) <= 1)
    /\ [][\A c \in Callers :
             (Outstanding \ {c} # {}) =>
                 /\ ~(pcCaller[c] = "clearing" /\ pcCaller'[c] = "send")
                 /\ ~(pcCaller[c] = "send" /\ pcCaller'[c] = "wait_enter")]_vars

\* The step in which send_command returns None because it timed out
TimeoutReturn(c) == pcCaller[c] = "wait_check" /\ pcCaller'[c] = "idle"

\* A step of a thread that waits, of a thread that holds the lock, or of time
WaitProgress ==
    \/ Tick
    \/ Store
    \/ \E c \in Callers : AcquireForWait(c) \/ WaitCheck(c) \/ Clear(c)

\* C11: a send_command with timeout T returns the timeout failure never before
\* T has elapsed since the command was transmitted and at most one poll
\* interval after T; it never waits forever: while a call waits some step of
\* the wait is possible, its elapsed time never exceeds T plus one interval,
\* and a call whose time is up has been woken.
C11_TimeoutWithinBounds ==
    /\ [][\A c \in Callers :
             TimeoutReturn(c) =>
                 (elapsed[c] > TimeoutTicks /\ elapsed[c] <= TimeoutTicks + 1)]_vars
    /\ [](\A c \in Callers :
             /\ elapsed[c] <= TimeoutTicks + 1
             /\ (pcCaller[c] = "wait_cond" /\ elapsed[c] > TimeoutTicks) => wake[c]
             /\ c \in Timing => ENABLED WaitProgress)

\* C11 witness: the only command sent was never answered and its call has
\* returned the timeout failure.
C11_Witness ==
    /\ calls = 1
    /\ abandoned = {1}
    /\ pending = {1}
    /\ response = NoResponse
    /\ pcCaller[1] = "idle"

\* C12: within one send_command the send is attempted at most 3 times; a
\* successful attempt goes on to wait for the response; the call returns the
\* I/O failure without waiting only when the last permitted attempt has
\* failed; and only a backoff leads from one attempt to the next.
C12_RetryBound ==
    /\ [](\A c \in Callers : attempt[c] <= RetryLimit - 1)
    /\ [][\A c \in Callers :
             /\ (pcCaller[c] = "send" /\ pcCaller'[c] # "send") =>
                   /\ pcCaller'[c] \in {"wait_enter", "backoff", "idle"}
                   /\ (pcCaller'[c] = "wait_enter") <=>
                         (cmdOf[c] \in pending' /\ cmdOf[c] \notin pending)
                   /\ (pcCaller'[c] = "idle") => attempt[c] = RetryLimit - 1
             /\ (attempt'[c] > attempt[c]) =>
                   (pcCaller[c] = "backoff" /\ attempt'[c] = attempt[c] + 1)]_vars

\* C12 witness: two attempts have failed, each followed by a backoff, and the
\* third and last attempt is about to be made.
C12_Witness ==
    \E c \in Callers :
        /\ pcCaller[c] = "send"
        /\ attempt[c] = RetryLimit - 1
        /\ cmdOf[c] \notin pending

\* C13: a send_command never returns the vehicle's reply to an earlier
\* command whose send_command had already timed out.
C13_NoAbandonedReply ==
    [][\A c \in Callers :
          (pcCaller[c] = "read" /\ pcCaller'[c] = "idle") =>
              (response = NoResponse \/ response.for \notin abandoned)]_vars

\* The step in which the send_command that close() made through streamoff()
\* returns, and close() goes on to socket.close()
CloseReturns(c) == callKind[c] = "close" /\ pcCaller[c] # "idle" /\ pcCaller'[c] = "idle"

C16_NoInstructionDropped ==
    pcMain = "exited" => command_queue = <<>>

\* Positions of the executor inside the handling of one instruction
Handling == {"translating", "dispatching", "analysis", "scan_rotate", "scan_settle"}

\* C17: when the handling of an action is over, failed or not, the executor
\* loop goes on with the queue as it was: the loop ends only at its head and
\* only when running is false, and while running is true the next
\* instruction of a non-empty queue can be dequeued, in order.
C17_FailureDoesNotStopExecutor ==
    /\ [][(pcExec \in Handling /\ pcExec' # pcExec) =>
              (pcExec' # "done" /\ command_queue' = command_queue)]_vars
    /\ [][(pcExec # "done" /\ pcExec' = "done") => (pcExec = "idle" /\ ~running)]_vars
    /\ []((pcExec = "idle" /\ running /\ command_queue # <<>>) => ENABLED ExecDequeue)
    /\ []((pcExec \in Handling \/ pcExec = "idle") =>
             \A i \in DOMAIN command_queue : command_queue[i].id > lastTaken)

\* C17 witness: the first instruction was a takeoff whose dispatch was not
\* acknowledged (it returned False or raised), and the executor has dequeued
\* the second instruction.
C17_Witness ==
    /\ lastTaken = 2
    /\ pcExec = "translating"
    /\ lastTL = "takeoff"
    /\ drone_is_flying
    /\ ~airborneAck
    /\ running

\* Positions of the executor inside _execute_360_scan
Sweeping == {"scan_rotate", "scan_settle"}

C20_FifoOnceSequential ==
    /\ [][lastTaken' # lastTaken =>
              /\ command_queue # <<>>
              /\ lastTaken' = command_queue[1].id
              /\ lastTaken' = lastTaken + 1
              /\ command_queue' = Tail(command_queue)
              /\ pcExec = "idle"
              /\ cur = NoCommand]_vars
    /\ [][Len(command_queue') < Len(command_queue) => lastTaken' # lastTaken]_vars
    /\ [](\A i \in DOMAIN command_queue : command_queue[i].id = added - Len(command_queue) + i)

\* C20 witness: two instructions were enqueued before the first was dequeued
\* and both have been dequeued; the second is being dispatched.
C20_Witness ==
    /\ added = 2
    /\ lastTaken = 2
    /\ command_queue = <<>>
    /\ pcExec = "dispatching"

(***************************************************************************)
(* Part III - properties.                                                  *)
(***************************************************************************)

\* The distance, angle and duration of a command lie in the ranges of
\* command_schema
InRange(c) ==
    /\ c.distance >= 0 /\ c.distance <= MaxDistance
    /\ c.angle >= -MaxAngle /\ c.angle <= MaxAngle
    /\ c.duration >= 0 /\ c.duration <= MaxDuration

C15_RangesEnforced ==
    pcControl \in {"returned", "guarded"} =>
        /\ ~InRange(reply) => command_json.error
        /\ (_validate_command(reply) /\ InRange(reply)) => command_json = reply

(***************************************************************************)
(* Part I - properties of VisionAssist and FlightState.                    *)
(***************************************************************************)

\* The step in which the executor's handling of an instruction is over and
\* the loop is back at its head: from inside the handling, or - for an
\* instruction handled without an await - within the step that dequeued it
FinishesInstruction ==
    \/ pcExec \in Handling /\ pcExec' = "idle"
    \/ pcExec = "idle" /\ lastTaken' # lastTaken /\ pcExec' = "idle"

\* The text of the instruction whose handling is over in this step
FinishedText == IF pcExec \in Handling THEN cur.text ELSE Head(command_queue).text

\* C21: whenever the executor has finished handling an instruction whose
\* text contains neither "continuous" nor "monitor" - succeeded, failed or
\* raised - VisionAssist is off before the next instruction is dequeued.
C21_VisionClearedAfterInstruction ==
    [][(FinishesInstruction /\ ~FinishedText.cont) => ~vision_analysis_enabled']_vars

\* C22: when an instruction whose text contains "continuous" or "monitor" has
\* turned VisionAssist on, VisionAssist is still on when the action, and the
\* sweep or image analysis it triggered, are over.
C22_ContinuousKeepsVision ==
    [][(FinishesInstruction /\ FinishedText.cont /\ FinishedText.kw) =>
          vision_analysis_enabled']_vars

\* C23: when the executor handles a takeoff (respectively land), FlightState
\* is AIRBORNE (respectively GROUNDED) from the dispatch of the command on:
\* no state has a takeoff in dispatch with FlightState still GROUNDED, and
\* when the dispatch is over - True, False, raised or cancelled - FlightState
\* is what the dispatch left it.
C23_FlightStateSetAtDispatch ==
    /\ []((pcExec = "dispatching" /\ cur.action = "takeoff") => drone_is_flying)
    /\ []((pcExec = "dispatching" /\ cur.action = "land") => ~drone_is_flying)
    /\ [][(pcExec = "dispatching" /\ pcExec' # "dispatching"
             /\ cur.action \in {"takeoff", "land"}) =>
              (drone_is_flying' = (cur.action = "takeoff"))]_vars
    /\ [][(pcExec = "dispatching" /\ pcExec' # "dispatching") =>
              drone_is_flying' = drone_is_flying]_vars

\* C23 witness: a takeoff was dispatched and came back without an
\* acknowledgement (False or an exception): FlightState is AIRBORNE all the
\* same, and the executor is back at the head of its loop.
C23_Witness ==
    /\ pcMain = "loop"
    /\ pcExec = "idle"
    /\ lastTaken = 1
    /\ lastTL = "takeoff"
    /\ ~airborneAck
    /\ drone_is_flying

\* Positions of an executor task that runs no further statement
ExecOver == {"none", "done", "cancelled"}

\* C24: once cleanup() has read FlightState to decide on the fail-safe
\* landing, the executor task dispatches no further command: from the first
\* cleanup() on the task is over, and no step changes what it was handling.
C24_NoDispatchAfterFailSafeCheck ==
    /\ [](cleanupNo > 0 => pcExec \in ExecOver)
    /\ [][cleanupNo > 0 =>
              (pcExec' = pcExec /\ cur' = cur /\ lastTL' = lastTL /\ swept' = swept
               /\ lastTaken' = lastTaken)]_vars

\* C24 witness: shutdown cancelled the executor inside a sweep of which some
\* rotations were still to be dispatched, and the process has exited without
\* them.
C24_Witness ==
    /\ pcMain = "exited"
    /\ pcExec = "cancelled"
    /\ swept > 0
    /\ swept < total_steps * angles_per_step

\* The executor task is suspended in await execute_command: the command it
\* dispatched is at the transport and has not resolved
InFlight == pcExec \in {"dispatching", "scan_rotate"}

\* The step in which cleanup() dispatches its fail-safe land or emergency_stop
FailSafeSends ==
    /\ Len(log') > Len(log)
    /\ log'[Len(log')].ev \in {"land", "emergency_stop"}

\* C25: the fail-safe land (and emergency_stop) of cleanup() is never sent
\* while a command the executor dispatched is still outstanding: when
\* cleanup() sends, the executor's command has resolved or none was in flight.
C25_FailSafeNotSentOverInFlight ==
    [][FailSafeSends => ~InFlight]_vars

\* Positions of the executor with an action dispatched and not yet complete
Dispatched == {"dispatching", "scan_rotate", "scan_settle"}

\* C26: shutdown stops the executor only between queue operations: teardown
\* does not begin while an action that was dequeued and dispatched is still
\* running (a sweep with steps left included), and no instruction is dequeued
\* once running has been cleared.
C26_ShutdownBetweenQueueOperations ==
    /\ [][cleanupNo' # cleanupNo => pcExec \notin Dispatched]_vars
    /\ [][lastTaken' # lastTaken => running]_vars

(***************************************************************************)
(* Part II - properties of the response slot.                              *)
(***************************************************************************)

\* C27: when send_command leaves its wait loop because the slot is set, the
\* value it returns is not None and is the datagram that ended the wait:
\* between the end of the wait and the return the slot is set and does not
\* change, whatever the receiver and other callers do.
C27_ReturnsWhatEndedTheWait ==
    /\ [](\A c \in Callers : pcCaller[c] = "read" => response # NoResponse)
    /\ [][\A c \in Callers : pcCaller[c] = "read" => response' = response]_vars

\* C28: every datagram the receiver stores is returned by at most one
\* send_command call.
C28_DatagramReturnedOnce ==
    taken <= 1

\* Positions of send_command after "self.response = None"
PastClear == {"send", "backoff", "wait_enter", "wait_check", "wait_cond", "read"}

\* C29: a datagram stored in the slot before a send_command call began is
\* never returned by that call: the call empties the slot before it
\* transmits, and from then on whatever the slot holds was stored after the
\* call began.
C29_StaleDatagramNotReturned ==
    /\ [][\A c \in Callers :
             (pcCaller[c] = "clearing" /\ pcCaller'[c] # "clearing") =>
                 (response' = NoResponse /\ pcCaller'[c] = "send")]_vars
    /\ [](\A c \in Callers :
             (pcCaller[c] \in PastClear /\ response # NoResponse) =>
                 storedAt >= cmdOf[c])
    /\ [](\A c \in Callers : cmdOf[c] \in pending => pcCaller[c] \in PastClear)

\* C29 witness: connect was answered "ok" and returned, leaving its reply in
\* the slot; the next call has emptied the slot, transmitted, and is about to
\* return its own reply.
C29_Witness ==
    /\ is_connected
    /\ calls = 2
    /\ \E c \in Callers :
          /\ pcCaller[c] = "read"
          /\ cmdOf[c] = 2
          /\ response # NoResponse
          /\ response.for = 2
          /\ storedAt = 2
          /\ \A o \in Callers \ {c} : pcCaller[o] = "idle"

\* Positions of send_command after its datagram was sent
Sent == {"wait_enter", "wait_check", "wait_cond", "read"}

\* C30: a send_command transmits its datagram successfully at most once: the
\* datagram goes out in a send attempt that leads to the wait, after it no
\* further attempt is made, and a timeout returns without sending again.
C30_TransmitsAtMostOnce ==
    /\ [][\A c \in Callers :
             /\ pcCaller[c] \in Sent => pcCaller'[c] \in Sent \cup {"idle"}
             /\ (cmdOf[c] \notin pending /\ cmdOf[c] \in pending') =>
                   (pcCaller[c] = "send" /\ pcCaller'[c] = "wait_enter")
             /\ TimeoutReturn(c) => pending' = pending]_vars
    /\ [](\A c \in Callers : cmdOf[c] \in pending => pcCaller[c] \in Sent)

\* C30 witness: two commands were transmitted, neither was answered, and both
\* calls have returned the timeout failure: each is at the vehicle once.
C30_Witness ==
    /\ calls = 2
    /\ abandoned = {1, 2}
    /\ pending = {1, 2}
    /\ \A c \in Callers : pcCaller[c] = "idle"

(***************************************************************************)
(* Part II - properties of the lock and of the receiver thread.            *)
(***************************************************************************)

\* The step with which the holder of the lock releases it
Release ==
    \/ Store
    \/ \E c \in Callers : Clear(c) \/ WaitCheck(c)

\* C31: send_command never stays blocked while it holds the lock of the
\* response condition: a thread holds it only inside "self.response = None"
\* and inside one evaluation of the wait loop, never during a send attempt, a
\* backoff or a wait; the holder can always take the step that releases it,
\* and takes no other; so the receiver, when it has a datagram to store,
\* finds the lock free or about to be freed, and no state is a deadlock.
C31_NoBlockingUnderLock ==
    /\ [](\A c \in Callers : lock = c <=> pcCaller[c] \in {"clearing", "wait_check"})
    /\ [](lock = RecvId <=> pcRecv = "storing")
    /\ [](lock # 0 => ENABLED Release)
    /\ [](pcRecv = "store_enter" => (ENABLED AcquireForStore \/ ENABLED Release))
    /\ []((\E c \in Callers : pcCaller[c] \in {"clear", "wait_enter", "wait_cond"}) =>
             ENABLED (Release \/ Tick \/ \E c \in Callers : AcquireForClear(c) \/ AcquireForWait(c)))
    /\ [][(lock # 0 /\ lock' # lock) => lock' = 0]_vars

\* C31 witness: the receiver has a datagram to store while one thread holds
\* the lock inside its wait loop and another is blocked in its wait.
C31_Witness ==
    /\ pcRecv = "store_enter"
    /\ \E c \in Callers :
          /\ lock = c
          /\ pcCaller[c] = "wait_check"
          /\ \E o \in Callers \ {c} : pcCaller[o] = "wait_cond"

\* C32: the receiver thread exits for good at the first socket error and is
\* never restarted; from then on nothing is stored in the slot, and every
\* send_command begun afterwards, while the socket can still send, transmits
\* its datagram and returns None by timeout, its command unanswered whatever
\* the vehicle replies.
C32_ReceiverGoneMeansTimeout ==
    /\ [](exitedAt # -1 => pcRecv = "exited")
    /\ [][pcRecv = "exited" =>
              (pcRecv' = "exited" /\ response' \in {response, NoResponse})]_vars
    /\ [](\A c \in Callers :
             (pcRecv = "exited" /\ cmdOf[c] > exitedAt) =>
                 /\ pcCaller[c] \in PastClear => response = NoResponse
                 /\ pcCaller[c] # "read"
                 /\ (pcCaller[c] = "send" /\ ~socket_closed) => ENABLED SendAttempt(c, TRUE))
    /\ [][\A c \in Callers :
             (pcRecv = "exited" /\ cmdOf[c] > exitedAt
                /\ pcCaller[c] \in Sent /\ pcCaller'[c] = "idle") =>
                 (TimeoutReturn(c) /\ TimedOut(elapsed[c]) /\ cmdOf[c] \in pending')]_vars

\* C32 witness: recvfrom raised on the open socket after the first call; the
\* second call transmitted its command and has returned the timeout failure.
C32_Witness ==
    /\ pcRecv = "exited"
    /\ ~socket_closed
    /\ exitedAt = 1
    /\ 2 \in abandoned
    /\ 2 \in pending
    /\ \A c \in Callers : pcCaller[c] = "idle"

\* C33: once close() has closed the socket, the receiver's pending recvfrom
\* is unblocked with an error and the thread ends: it receives no further
\* datagram, it can always take the step that ends it, and it stores no
\* datagram in the response slot afterwards.
C33_ReceiverStopsAtClose ==
    /\ []((socket_closed /\ pcRecv = "recv") => ENABLED ReceiveError)
    /\ [][(socket_closed /\ pcRecv = "recv") => pcRecv' \in {"recv", "exited"}]_vars
    /\ [][socket_closed => ~(pcRecv = "storing" /\ pcRecv' # "storing")]_vars

(***************************************************************************)
(* Part I - properties of FlightState in cleanup() and in the executor,    *)
(* and of the tags of the sweep.                                           *)
(***************************************************************************)

\* Positions of cleanup() after its fail-safe block
AfterFailSafe == {"camera", "disconnect", "done", "aborted"}

\* C34: after cleanup() has run its fail-safe block FlightState is GROUNDED
\* on every path, also when the land timed out or raised and no
\* emergency_stop was dispatched; a cleanup() that starts with FlightState
\* GROUNDED dispatches no land and no emergency_stop and leaves it GROUNDED.
C34_GroundedAfterFailSafe ==
    /\ pcCleanup \in AfterFailSafe => ~drone_is_flying
    /\ pcMain = "exited" => ~drone_is_flying
    /\ drone_is_flying => (tello_controller /\ ~vision_only)
    /\ \A n \in 1..cleanupNo :
          ~flyingAtStart[n] => (Count(n, "land") = 0 /\ Count(n, "emergency_stop") = 0)

\* C34 witness: the fail-safe land of an airborne vehicle timed out, no
\* emergency_stop was dispatched, and cleanup() is past the block with
\* FlightState GROUNDED.
C34_Witness ==
    /\ pcCleanup \in AfterFailSafe
    /\ ~drone_is_flying
    /\ airborneAck
    /\ Count(cleanupNo, "emergency_stop") = 0
    /\ \E i \in DOMAIN log :
          log[i] = Ev(cleanupNo, "land_returns", "timeout")

\* The step in which the executor, given the translation of its instruction
\* to action a, goes on to dispatch it (as itself or as a sweep)
DispatchOf(a) ==
    /\ ExecTranslated("command", a)
    /\ pcExec' \in {"dispatching", "scan_rotate"}
    /\ cur'.action = a

\* C35: a takeoff handled while FlightState is AIRBORNE leaves it AIRBORNE
\* and is still dispatched; the executor dispatches every translated action
\* whatever the FlightState - a move or a land while GROUNDED too - and
\* only takeoff and land write FlightState.
C35_DispatchedWhateverFlightState ==
    /\ []((pcExec = "translating" /\ tello_controller) =>
             \A a \in DroneAction : ENABLED DispatchOf(a))
    /\ [][(pcExec = "translating" /\ pcExec' = "dispatching"
             /\ cur'.action = "takeoff" /\ drone_is_flying) => drone_is_flying']_vars
    /\ [][(pcExec = "translating" /\ cur'.action \notin {"takeoff", "land"}) =>
              drone_is_flying' = drone_is_flying]_vars

\* C35 witness: the first takeoff was acknowledged; the second instruction
\* was translated to takeoff as well and is being dispatched, FlightState
\* AIRBORNE as before.
C35_Witness ==
    /\ pcExec = "dispatching"
    /\ cur.action = "takeoff"
    /\ lastTaken = 2
    /\ airborneAck
    /\ drone_is_flying
    /\ running

\* _execute_360_scan: current_angle = step * angles_per_step (main.py:207),
\* the angle in the key and the 'angle' field of the objects of the step
\* (main.py:223-225)
current_angle(step) == step * angles_per_step

\* The step in which the sweep reads the snapshot after a rotation and
\* records its objects (main.py:218-228)
RecordsObjects ==
    /\ pcExec = "scan_settle"
    /\ pcExec' \in {"scan_rotate", "idle"}
    /\ ObjectsIn(latest_analysis) > 0

\* C36: during the sweep, the objects recorded after the k-th rotation of 45
\* degrees (k = 1..8) are tagged with the cumulative angle reached at that
\* point, k * 45 degrees.
C36_TaggedWithCumulativeAngle ==
    [][RecordsObjects =>
          (current_angle(scanStep) = swept /\ swept = (scanStep + 1) * angles_per_step)]_vars
====
